---- MODULE Spec2Model ----
(***************************************************************************)
(* The chat process of willbach/uqdev-testing (src/src/lib.rs, and its     *)
(* copy src/testing/src/lib.rs): one node's event loop, its message        *)
(* archive and its WebSocket channel id.                                   *)
(*                                                                         *)
(* One step of the model is one turn of the loop in Component::init: one   *)
(* message is awaited and handle_message runs on it to completion.         *)
(* What the handlers hand to the runtime during that turn (responses,      *)
(* requests to other nodes, WebSocket pushes, pushes onto an archive Vec)  *)
(* is logged in variables that describe the last turn only.                *)
(*                                                                         *)
(* The runtime library (uqbar_process_lib) is the environment:             *)
(*  - send_and_await_response blocks and yields Ok(response) or            *)
(*    Err(SendError) (the target is offline, or no response came within    *)
(*    the timeout); the handler unwraps that result;                       *)
(*  - send_ws_push is a request to the node's http server and returns a    *)
(*    Result the handler propagates with `?`;                              *)
(*  - Response::send and send_response hand a response with its ipc set    *)
(*    to the runtime, which does not fail.                                 *)
(***************************************************************************)
EXTENDS Integers, Sequences, FiniteSets, TLC

\* ------------------------------------------------------------------ bounds

\* Turns of the event loop explored.
MaxEvents == 3
\* WebSocket channel ids the http server hands out: 1..MaxChannel.
MaxChannel == 2
\* Two nodes: Sends the user of each node issues.
NetMaxSends == 2

\* ------------------------------------------------------------- the universe

\* our.node, the node this process runs on.
our == "our"
\* Every node that can be the source of a request or the target of a Send.
Nodes == {"our", "bob", "carol"}
\* Message texts.
Contents == {"hi", "yo"}
ChannelIds == 1..MaxChannel
\* HTTP methods: "PUT" stands for every method other than GET and POST.
Methods == {"GET", "POST", "PUT"}

\* What send_and_await_response(5) yields: a response, or a SendError
\* (offline target, or timeout).
AwaitOutcomes == {"Ok", "SendError"}
\* What send_ws_push yields.
PushOutcomes == {"Ok", "Err"}

\* --------------------------------------------------------------- the bytes
\* A byte string is modelled by what the two serde decoders make of it:
\* fmt says which grammar the bytes conform to (ChatRequest JSON,
\* HttpServerRequest JSON, neither, or no bytes at all), the other fields
\* are the decoded value.  The two enums have disjoint variant tags, so no
\* byte string conforms to both.

Bytes(fmt, tag, target, message, channel, method) ==
    [fmt |-> fmt, tag |-> tag, target |-> target, message |-> message,
     channel_id |-> channel, method |-> method]

\* serde_json encoding of ChatRequest::Send { target, message }
SendBytes(target, message) == Bytes("ChatRequest", "Send", target, message, 0, "")
\* serde_json encoding of ChatRequest::History
HistoryBytes == Bytes("ChatRequest", "History", "", "", 0, "")
\* serde_json encodings of the HttpServerRequest variants
WebSocketOpenBytes(id) == Bytes("HttpServerRequest", "WebSocketOpen", "", "", id, "")
WebSocketPushBytes == Bytes("HttpServerRequest", "WebSocketPush", "", "", 0, "")
WebSocketCloseBytes(id) == Bytes("HttpServerRequest", "WebSocketClose", "", "", id, "")
HttpBytes(method) == Bytes("HttpServerRequest", "Http", "", "", 0, method)
\* Bytes that are neither a ChatRequest nor an HttpServerRequest.
GarbageBytes == Bytes("garbage", "", "", "", 0, "")
\* get_payload() = None
NoPayload == Bytes("none", "", "", "", 0, "")

ChatRequestBytes == {SendBytes(t, m) : t \in Nodes, m \in Contents} \cup {HistoryBytes}
\* What a POST body or a WebSocket frame can hold.
Payloads == ChatRequestBytes \cup {GarbageBytes, NoPayload}

\* serde_json::from_slice::<ChatRequest>(ipc) is Ok
IsChatRequest(ipc) == ipc.fmt = "ChatRequest"
\* serde_json::from_slice::<HttpServerRequest>(ipc) is Ok
IsHttpServerRequest(ipc) == ipc.fmt = "HttpServerRequest"

\* ------------------------------------------------------------- the archive
\* MessageArchive = HashMap<String, Vec<ChatMessage>>: a function whose
\* domain is the set of keys present.

EmptyArchive == [k \in {} |-> <<>>]

ChatMessage(author, content) == [author |-> author, content |-> content]

\* message_archive.get_mut(counterparty), inserting Vec::new() when absent
GetOrInsert(archive, counterparty) ==
    IF counterparty \in DOMAIN archive
    THEN archive
    ELSE archive @@ (counterparty :> <<>>)

\* ArchivePush that creates a missing entry and returns without pushing.
ArchivePushDropsFirst(archive, counterparty, new_message) ==
    IF counterparty \in DOMAIN archive
    THEN [archive EXCEPT ![counterparty] = Append(@, new_message)]
    ELSE archive @@ (counterparty :> <<>>)

\* ArchivePush that inserts a fresh Vec holding the message, replacing the
\* entry.
ArchivePushOverwrites(archive, counterparty, new_message) ==
    [k \in DOMAIN archive \cup {counterparty} |->
        IF k = counterparty THEN <<new_message>> ELSE archive[k]]

\* messages.push(new_message) on the entry GetOrInsert found or made
ArchivePush(archive, counterparty, new_message) ==
    [GetOrInsert(archive, counterparty) EXCEPT ![counterparty] = Append(@, new_message)]

\* Snapshot that answers with a fresh map instead of the clone.
SnapshotFresh(archive) == EmptyArchive
\* message_archive.clone()
Snapshot(archive) == archive

\* ------------------------------------------------------------------- state

VARIABLES
    message_archive,  \* init: let mut message_archive = HashMap::new()
    channel_id,       \* init: let mut channel_id = 0
    running,          \* FALSE once a handler has panicked: the process is gone
    handled,          \* turns of the loop taken so far
    message,          \* the message the last turn awaited
    responses,        \* last turn: responses handed to the runtime, in order
    requests,         \* last turn: requests sent to other nodes and awaited
    pushes,           \* last turn: send_ws_push calls
    appended,         \* last turn: messages.push calls
    result,           \* last turn: "Ok", "Err" (logged by the loop) or "Panic"
    sends,            \* every Send command decoded so far, in dequeue order
    net               \* two nodes running the program: see NetStart

vars == <<message_archive, channel_id, running, handled, message, responses,
          requests, pushes, appended, result, sends, net>>

\* What a handler works on: the two pieces of state init owns, and the
\* turn's log.
HandlerState(archive, channel) ==
    [archive |-> archive, channel |-> channel, responses |-> <<>>,
     requests |-> <<>>, pushes |-> <<>>, appended |-> <<>>, result |-> "Ok"]

\* A response as the runtime sees it.  via: "Response" (Response::new()...
\* .send(), the peer protocol) or "send_response" (the http server's).
ResponseRec(via, status, body, messages, to) ==
    [via |-> via, status |-> status, body |-> body, messages |-> messages, to |-> to]

NewMessage(chat, author, content) == [chat |-> chat, author |-> author, content |-> content]

\* ------------------------------------------------------ handle_chat_request

\* Counterparty with the branch dropped: every message is filed under its
\* target.
CounterpartyIsTarget(target, source) == target
\* let (counterparty, author) = if target == &our.node {..} else {..}
Counterparty(target, source) == IF target = our THEN source ELSE target
\* Author with the branch dropped: every message is signed by the local node.
AuthorAlwaysOur(target, source) == our
Author(target, source) == IF target = our THEN source ELSE our

\* Request::new().target(..).ipc(ipc).send_and_await_response(5)?.unwrap():
\* the builder has its target and ipc, so `?` never returns; unwrap panics
\* on a SendError.
Forward(st, target, ipc, fwd) ==
    [st EXCEPT !.requests = Append(@, [target |-> target, ipc |-> ipc, outcome |-> fwd]),
               !.result = IF fwd = "Ok" THEN "Ok" ELSE "Panic"]

\* Response::new().ipc(to_vec(&ChatResponse::Ack)).send().unwrap()
SendAck(st, source) ==
    [st EXCEPT !.responses = Append(@, ResponseRec("Response", "", "Ack", EmptyArchive, source))]

\* messages.push(new_message)
PushMessage(st, counterparty, new_message) ==
    [st EXCEPT !.archive = ArchivePush(@, counterparty, new_message),
               !.appended = Append(@, NewMessage(counterparty, new_message.author,
                                                 new_message.content))]

\* SendWsPush whose result is unwrapped instead of propagated.
SendWsPushUnwrap(st, event, ws) ==
    [st EXCEPT !.pushes = Append(@, [channel_id |-> st.channel, event |-> event,
                                     outcome |-> ws]),
               !.result = IF ws = "Ok" THEN "Ok" ELSE "Panic"]

\* send_ws_push(our.node, channel_id, Text, {"NewMessage": ..})?
SendWsPush(st, event, ws) ==
    [st EXCEPT !.pushes = Append(@, [channel_id |-> st.channel, event |-> event,
                                     outcome |-> ws]),
               !.result = IF ws = "Ok" THEN "Ok" ELSE "Err"]

\* The ChatRequest::Send arm.
HandleSend(st, source, ipc, is_http, fwd, ws) ==
    LET target == ipc.target
        content == ipc.message
        counterparty == Counterparty(target, source)
        author == Author(target, source)
        new_message == ChatMessage(author, content)
        st1 == IF target # our THEN Forward(st, target, ipc, fwd) ELSE st
    IN  IF st1.result # "Ok" THEN st1
        ELSE IF is_http THEN PushMessage(st1, counterparty, new_message)
        ELSE SendWsPush(PushMessage(SendAck(st1, source), counterparty, new_message),
                        NewMessage(counterparty, author, content), ws)

\* The ChatRequest::History arm.
HandleHistory(st, source) ==
    [st EXCEPT !.responses =
        Append(@, ResponseRec("Response", "", "History", Snapshot(st.archive), source))]

\* HandleChatRequest that returns the decode error (from_slice(ipc)?)
\* instead of returning Ok(()).
HandleChatRequestStrict(st, source, ipc, is_http, fwd, ws) ==
    IF ~IsChatRequest(ipc) THEN [st EXCEPT !.result = "Err"]
    ELSE IF ipc.tag = "Send" THEN HandleSend(st, source, ipc, is_http, fwd, ws)
    ELSE HandleHistory(st, source)

HandleChatRequest(st, source, ipc, is_http, fwd, ws) ==
    IF ~IsChatRequest(ipc) THEN st
    ELSE IF ipc.tag = "Send" THEN HandleSend(st, source, ipc, is_http, fwd, ws)
    ELSE HandleHistory(st, source)

\* ----------------------------------------------- handle_http_server_request

\* send_response(status, headers, body)?
SendResponse(st, status, body, messages, source) ==
    [st EXCEPT !.responses = Append(@, ResponseRec("send_response", status, body,
                                                   messages, source))]

\* The "POST" arm.
HandlePost(st, source, payload, fwd, ws) ==
    IF payload = NoPayload THEN st
    ELSE LET st1 == HandleChatRequest(st, source, payload, TRUE, fwd, ws)
         IN  IF st1.result # "Ok" THEN st1
             ELSE SendResponse(st1, "CREATED", "", EmptyArchive, source)

\* HandleHttp without the catch-all arm: every method but GET is served as
\* a POST.
HandleHttpNoCatchAll(st, source, method, payload, fwd, ws) ==
    CASE method = "GET" ->
            SendResponse(st, "OK", "History", Snapshot(st.archive), source)
      [] OTHER -> HandlePost(st, source, payload, fwd, ws)

\* The HttpServerRequest::Http arm.
HandleHttp(st, source, method, payload, fwd, ws) ==
    CASE method = "GET" ->
            SendResponse(st, "OK", "History", Snapshot(st.archive), source)
      [] method = "POST" -> HandlePost(st, source, payload, fwd, ws)
      [] OTHER -> SendResponse(st, "METHOD_NOT_ALLOWED", "", EmptyArchive, source)

\* The HttpServerRequest::WebSocketPush arm.
HandleWebSocketPush(st, source, payload, fwd, ws) ==
    IF payload = NoPayload THEN st
    ELSE HandleChatRequest(st, source, payload, FALSE, fwd, ws)

\* HandleHttpServerRequest that detaches the channel on WebSocketClose.
HandleHttpServerRequestDetach(st, source, ipc, payload, fwd, ws) ==
    IF ~IsHttpServerRequest(ipc) THEN st
    ELSE CASE ipc.tag = "WebSocketOpen" -> [st EXCEPT !.channel = ipc.channel_id]
           [] ipc.tag = "WebSocketPush" -> HandleWebSocketPush(st, source, payload, fwd, ws)
           [] ipc.tag = "WebSocketClose" -> [st EXCEPT !.channel = 0]
           [] OTHER -> HandleHttp(st, source, ipc.method, payload, fwd, ws)

\* HandleHttpServerRequest that hands bytes it cannot decode to the chat
\* handler.
HandleHttpServerRequestFallback(st, source, ipc, payload, fwd, ws) ==
    IF ~IsHttpServerRequest(ipc) THEN HandleChatRequest(st, source, ipc, FALSE, fwd, ws)
    ELSE CASE ipc.tag = "WebSocketOpen" -> [st EXCEPT !.channel = ipc.channel_id]
           [] ipc.tag = "WebSocketPush" -> HandleWebSocketPush(st, source, payload, fwd, ws)
           [] ipc.tag = "WebSocketClose" -> st
           [] OTHER -> HandleHttp(st, source, ipc.method, payload, fwd, ws)

HandleHttpServerRequest(st, source, ipc, payload, fwd, ws) ==
    IF ~IsHttpServerRequest(ipc) THEN st
    ELSE CASE ipc.tag = "WebSocketOpen" -> [st EXCEPT !.channel = ipc.channel_id]
           [] ipc.tag = "WebSocketPush" -> HandleWebSocketPush(st, source, payload, fwd, ws)
           [] ipc.tag = "WebSocketClose" -> st
           [] OTHER -> HandleHttp(st, source, ipc.method, payload, fwd, ws)

\* ------------------------------------------------------------ handle_message

ResponseMsg == [kind |-> "Response", source |-> "", ipc |-> NoPayload, payload |-> NoPayload]
RequestMsg(source, ipc, payload) ==
    [kind |-> "Request", source |-> source, ipc |-> ipc, payload |-> payload]

HandleMessage(st, msg, fwd, ws) ==
    IF msg.kind = "Response" THEN st
    ELSE LET st1 == HandleChatRequest(st, msg.source, msg.ipc, FALSE, fwd, ws)
         IN  IF st1.result # "Ok" THEN st1
             ELSE HandleHttpServerRequest(st1, msg.source, msg.ipc, msg.payload, fwd, ws)

\* The Send command an event carries, where a handler decodes one: in the
\* request's ipc, or in the payload of a POST or of a WebSocket frame.
DecodedSends(msg) ==
    IF msg.kind # "Request" THEN <<>>
    ELSE IF IsChatRequest(msg.ipc)
         THEN (IF msg.ipc.tag = "Send" THEN <<[source |-> msg.source, cmd |-> msg.ipc]>> ELSE <<>>)
    ELSE IF IsHttpServerRequest(msg.ipc)
            /\ (msg.ipc.tag = "WebSocketPush" \/ (msg.ipc.tag = "Http" /\ msg.ipc.method = "POST"))
            /\ IsChatRequest(msg.payload) /\ msg.payload.tag = "Send"
         THEN <<[source |-> msg.source, cmd |-> msg.payload]>>
    ELSE <<>>

\* ------------------------------------------------- two nodes, one program
\* The same program runs on each node of NetNodes, with our.node bound to
\* that node's name.  The handlers above are written for our.node = "our";
\* node n runs them on its state and its message with the names n and "our"
\* exchanged, and the outcome is read back through the same exchange.
\*
\* A process is one thread: while send_and_await_response blocks it takes
\* no message; requests sent to it wait in its queue.  The turn of a Send to
\* the other node is therefore two steps here: the forward is sent and the
\* process blocks; then the response arrives, or the 5 s timeout fires.

NetNodes == {"our", "bob"}
OtherNode(n) == CHOOSE m \in NetNodes : m # n

\* Both processes after init, nothing sent.
\*   archive  message_archive of each node
\*   status   "idle" (in await_message), "awaiting" (blocked in
\*            send_and_await_response) or "panicked"
\*   pending  the message the node's last turn took
\*   inbox    requests delivered to the node and not yet taken
\*   reply    the response to the node's forward has arrived
\*   started  Sends the node's user has issued
\*   crossed  the two messages of the first moment both nodes were blocked
\*            on each other, neither forward answered; {} before
NetStart ==
    [archive |-> [n \in NetNodes |-> EmptyArchive],
     status  |-> [n \in NetNodes |-> "idle"],
     pending |-> [n \in NetNodes |-> ResponseMsg],
     inbox   |-> [n \in NetNodes |-> <<>>],
     reply   |-> [n \in NetNodes |-> FALSE],
     started |-> [n \in NetNodes |-> 0],
     crossed |-> {}]

\* Names as node n's program sees them: n is its our.node.
Sw(n, x) == IF x = n THEN our ELSE IF x = our THEN n ELSE x

ViewArchive(n, archive) ==
    [k \in {Sw(n, j) : j \in DOMAIN archive} |->
        [i \in 1..Len(archive[Sw(n, k)]) |->
            ChatMessage(Sw(n, archive[Sw(n, k)][i].author), archive[Sw(n, k)][i].content)]]

ViewBytes(n, b) == [b EXCEPT !.target = Sw(n, @)]

ViewMsg(n, msg) ==
    [msg EXCEPT !.source = Sw(n, @), !.ipc = ViewBytes(n, @), !.payload = ViewBytes(n, @)]

\* handle_message on node n, the forward answered with fwd: the node's new
\* archive, the forwards it sends, the nodes it sends an Ack, the outcome.
NetHandle(n, msg, fwd) ==
    LET st == HandleMessage(HandlerState(ViewArchive(n, net.archive[n]), 0),
                            ViewMsg(n, msg), fwd, "Ok")
    IN  [archive  |-> ViewArchive(n, st.archive),
         forwards |-> [i \in 1..Len(st.requests) |->
                          [target |-> Sw(n, st.requests[i].target),
                           ipc |-> ViewBytes(n, st.requests[i].ipc)]],
         acks     |-> {Sw(n, st.responses[i].to) :
                          i \in {j \in 1..Len(st.responses) :
                                    /\ st.responses[j].via = "Response"
                                    /\ st.responses[j].body = "Ack"}},
         result   |-> st.result]

\* Node n's turn on msg runs to its end, the forward (if any) answered with
\* fwd: the archive is written, the Ack reaches a sender blocked on it, a
\* panic ends the process.
NetCompleted(nt, n, msg, fwd) ==
    LET h == NetHandle(n, msg, fwd)
    IN  [nt EXCEPT !.archive[n] = h.archive,
                   !.status[n] = IF h.result = "Panic" THEN "panicked" ELSE "idle",
                   !.pending[n] = msg,
                   !.reply = [m \in NetNodes |->
                                IF m = n THEN FALSE
                                ELSE nt.reply[m] \/ (m \in h.acks /\ nt.status[m] = "awaiting")]]

\* Node n takes msg: a turn without a forward runs to its end; a turn with
\* one sends the request (its source is n) to the target and blocks.
NetBegun(nt, n, msg) ==
    LET h == NetHandle(n, msg, "Ok")
    IN  IF h.forwards = <<>> THEN NetCompleted(nt, n, msg, "Ok")
        ELSE LET t == h.forwards[1].target
                 o == OtherNode(n)
             IN  [nt EXCEPT !.status[n] = "awaiting",
                            !.pending[n] = msg,
                            !.reply[n] = FALSE,
                            !.inbox[t] = Append(@, RequestMsg(n, h.forwards[1].ipc, NoPayload)),
                            !.crossed =
                                IF /\ @ = {} /\ t = o
                                   /\ nt.status[o] = "awaiting" /\ ~nt.reply[o]
                                   /\ nt.pending[o].payload.target = n
                                THEN {ChatMessage(n, msg.payload.message),
                                      ChatMessage(o, nt.pending[o].payload.message)}
                                ELSE @]

\* ----------------------------------------------------------- Component::init

Init ==
    /\ net = NetStart
    /\ message_archive = EmptyArchive
    /\ channel_id = 0
    /\ running = TRUE
    /\ handled = 0
    /\ message = ResponseMsg
    /\ responses = <<>>
    /\ requests = <<>>
    /\ pushes = <<>>
    /\ appended = <<>>
    /\ result = "Ok"
    /\ sends = <<>>

\* await_message() returns: the process is alive (and the model has turns
\* left).
Awaiting == running /\ handled < MaxEvents

\* One turn of `loop { match handle_message(..) { Ok(()) => {}, Err(e) =>
\* print } }` on message msg, the environment answering a forward with fwd
\* and a push with ws.  A panic ends the process.
Turn(msg, fwd, ws) ==
    \E st \in {HandleMessage(HandlerState(message_archive, channel_id), msg, fwd, ws)} :
        /\ message_archive' = st.archive
        /\ channel_id' = st.channel
        /\ responses' = st.responses
        /\ requests' = st.requests
        /\ pushes' = st.pushes
        /\ appended' = st.appended
        /\ result' = st.result
        /\ running' = (st.result # "Panic")
        /\ handled' = handled + 1
        /\ message' = msg
        /\ sends' = sends \o DecodedSends(msg)
        /\ net' = net

\* The answers the environment can give to the forward of command cmd:
\* only a Send to another node is forwarded.
AwaitOutcomesOf(cmd) ==
    IF IsChatRequest(cmd) /\ cmd.tag = "Send" /\ cmd.target # our
    THEN AwaitOutcomes ELSE {"Ok"}

\* The answers the environment can give to the push for command cmd.
PushOutcomesOf(cmd) ==
    IF IsChatRequest(cmd) /\ cmd.tag = "Send" THEN PushOutcomes ELSE {"Ok"}

\* Message::Response
RecvResponse ==
    /\ Awaiting
    /\ Turn(ResponseMsg, "Ok", "Ok")

\* A request of another process whose ipc is a Send command.
RecvSend ==
    /\ Awaiting
    /\ \E source \in Nodes, cmd \in ChatRequestBytes \ {HistoryBytes} :
         \E fwd \in AwaitOutcomesOf(cmd), ws \in PushOutcomesOf(cmd) :
            Turn(RequestMsg(source, cmd, NoPayload), fwd, ws)

\* A request of another process whose ipc is a History command.
RecvHistory ==
    /\ Awaiting
    /\ \E source \in Nodes : Turn(RequestMsg(source, HistoryBytes, NoPayload), "Ok", "Ok")

\* A request whose ipc neither decoder accepts.
RecvGarbage ==
    /\ Awaiting
    /\ \E source \in Nodes, payload \in {NoPayload, GarbageBytes} :
         Turn(RequestMsg(source, GarbageBytes, payload), "Ok", "Ok")

\* The http server's requests: their source is the local node.
RecvWebSocketOpen ==
    /\ Awaiting
    /\ \E id \in ChannelIds :
         Turn(RequestMsg(our, WebSocketOpenBytes(id), NoPayload), "Ok", "Ok")

RecvWebSocketClose ==
    /\ Awaiting
    /\ \E id \in ChannelIds :
         Turn(RequestMsg(our, WebSocketCloseBytes(id), NoPayload), "Ok", "Ok")

RecvWebSocketPush ==
    /\ Awaiting
    /\ \E payload \in Payloads :
         \E fwd \in AwaitOutcomesOf(payload), ws \in PushOutcomesOf(payload) :
            Turn(RequestMsg(our, WebSocketPushBytes, payload), fwd, ws)

RecvHttpGet ==
    /\ Awaiting
    /\ Turn(RequestMsg(our, HttpBytes("GET"), NoPayload), "Ok", "Ok")

RecvHttpPost ==
    /\ Awaiting
    /\ \E payload \in Payloads :
         \E fwd \in AwaitOutcomesOf(payload) :
            Turn(RequestMsg(our, HttpBytes("POST"), payload), fwd, "Ok")

\* A request with another method, with or without a body.
RecvHttpOther ==
    /\ Awaiting
    /\ \E method \in Methods \ {"GET", "POST"}, payload \in {NoPayload, SendBytes("bob", "hi")} :
         Turn(RequestMsg(our, HttpBytes(method), payload), "Ok", "Ok")

Next ==
    \/ RecvResponse
    \/ RecvSend
    \/ RecvHistory
    \/ RecvGarbage
    \/ RecvWebSocketOpen
    \/ RecvWebSocketClose
    \/ RecvWebSocketPush
    \/ RecvHttpGet
    \/ RecvHttpPost
    \/ RecvHttpOther

Spec == Init /\ [][Next]_vars

TypeOK ==
    /\ DOMAIN message_archive \subseteq Nodes
    /\ channel_id \in 0..MaxChannel
    /\ running \in BOOLEAN
    /\ handled \in 0..MaxEvents
    /\ result \in {"Ok", "Err", "Panic"}

\* ------------------------------------------------------ two nodes: actions

\* The one-node variables are not part of the two-node system.
OneNodeIdle ==
    UNCHANGED <<message_archive, channel_id, running, handled, message, responses,
                requests, pushes, appended, result, sends>>

\* The user of node n sends a message to the other node, by POST or by a
\* WebSocket frame.
NetLocalSend(n) ==
    /\ OneNodeIdle
    /\ net.status[n] = "idle"
    /\ net.started[n] < NetMaxSends
    /\ \E c \in Contents, ipc \in {HttpBytes("POST"), WebSocketPushBytes} :
         net' = [NetBegun(net, n, RequestMsg(n, ipc, SendBytes(OtherNode(n), c)))
                    EXCEPT !.started[n] = @ + 1]

\* await_message() on node n returns the request at the head of its queue.
NetRecv(n) ==
    /\ OneNodeIdle
    /\ net.status[n] = "idle"
    /\ net.inbox[n] # <<>>
    /\ net' = NetBegun([net EXCEPT !.inbox[n] = Tail(@)], n, Head(net.inbox[n]))

\* send_and_await_response on node n returns Ok(response).
NetAck(n) ==
    /\ OneNodeIdle
    /\ net.status[n] = "awaiting"
    /\ net.reply[n]
    /\ net' = NetCompleted(net, n, net.pending[n], "Ok")

\* send_and_await_response on node n returns Err(SendError): 5 s have
\* passed without a response.
NetTimeout(n) ==
    /\ OneNodeIdle
    /\ net.status[n] = "awaiting"
    /\ ~net.reply[n]
    /\ net' = NetCompleted(net, n, net.pending[n], "SendError")

NetNext ==
    \/ \E n \in NetNodes : NetLocalSend(n)
    \/ \E n \in NetNodes : NetRecv(n)
    \/ \E n \in NetNodes : NetAck(n)
    \/ \E n \in NetNodes : NetTimeout(n)

NetSpec == Init /\ [][NetNext]_vars

\* ------------------------------------------------------ reading the claims

\* The entry of key k, the empty sequence when the key is absent.
Entry(archive, k) == IF k \in DOMAIN archive THEN archive[k] ELSE <<>>

\* archive with message m added at the end of the entry of key k.
Extended(archive, k, m) ==
    [j \in DOMAIN archive \cup {k} |->
        IF j = k THEN Append(Entry(archive, k), m) ELSE archive[j]]

\* b is the encoding of a Send command.
SendCommand(b) == b.fmt = "ChatRequest" /\ b.tag = "Send"
\* b is the encoding of a History command.
HistoryCommand(b) == b.fmt = "ChatRequest" /\ b.tag = "History"

\* m is a request whose ipc is a Send command (a peer request).
PeerSend(m) == m.kind = "Request" /\ SendCommand(m.ipc)
\* m is an HTTP POST of the local http server whose body is a Send command.
HttpPostSend(m) ==
    /\ m.kind = "Request" /\ m.source = our
    /\ m.ipc = HttpBytes("POST") /\ SendCommand(m.payload)
\* m is a WebSocket frame of the local http server holding a Send command.
WebSocketSend(m) ==
    /\ m.kind = "Request" /\ m.source = our
    /\ m.ipc = WebSocketPushBytes /\ SendCommand(m.payload)

AckTo(node) == ResponseRec("Response", "", "Ack", EmptyArchive, node)
HttpCreated == ResponseRec("send_response", "CREATED", "", EmptyArchive, our)

\* ---------------------------------------------------------------------- C1
\* C1: whenever the forward of an outbound Send fails or times out, the
\* message {author: local node, content} is still appended to the Archive
\* under key target, and the loop goes on to the next event.
C1_ForwardFailureStillArchives ==
    \A i \in 1..Len(requests) :
        requests[i].outcome = "SendError" =>
            /\ running
            /\ appended = <<NewMessage(requests[i].target, our, requests[i].ipc.message)>>
            /\ Len(Entry(message_archive, requests[i].target)) > 0
            /\ Entry(message_archive, requests[i].target)
                    [Len(Entry(message_archive, requests[i].target))]
                 = ChatMessage(our, requests[i].ipc.message)

\* ---------------------------------------------------------------------- C2
\* C2: with a live channel registered, every archive append of a turn comes
\* with exactly one NewMessage push whose chat, author and content are those
\* of the append, whatever the origin of the Send.
C2_EveryAppendPushedOnce ==
    channel_id # 0 =>
        \A i \in 1..Len(appended) :
            Cardinality({j \in 1..Len(pushes) : pushes[j].event = appended[i]}) = 1

\* ---------------------------------------------------------------------- C3
\* C3: while the channel id still has its initial value 0 (no WebSocketOpen
\* was processed), handling a Send attempts no push and raises no error.
C3_NoChannelNoPush ==
    (channel_id = 0 /\ DecodedSends(message) # <<>>) =>
        (pushes = <<>> /\ result # "Err")

\* ---------------------------------------------------------------------- C4
\* C4: a turn on a peer Send from a remote node s whose target is the local
\* node extends the Archive entry of s by exactly the one message
\* {author: s, content}, sends exactly one Ack back to s, and forwards
\* nothing.
C4_InboundSendArchivedAndAcked ==
    [][ (PeerSend(message') /\ message'.source # our /\ message'.ipc.target = our) =>
            /\ message_archive' =
                 Extended(message_archive, message'.source,
                          ChatMessage(message'.source, message'.ipc.message))
            /\ responses' = <<AckTo(message'.source)>>
            /\ requests' = <<>>
      ]_vars

\* C4's case: a second inbound Send of the same peer has been archived and
\* acknowledged.
C4_Witness ==
    /\ PeerSend(message) /\ message.source = "bob" /\ message.ipc.target = our
    /\ Len(Entry(message_archive, "bob")) >= 2
    /\ responses = <<AckTo("bob")>>

\* ---------------------------------------------------------------------- C5
\* C5: a turn on a local HTTP POST whose body is a Send to t, t not the
\* local node, extends the Archive entry of t by exactly the one message
\* {author: local node, content}, forwards exactly one command with the
\* original bytes to t, produces exactly one HTTP CREATED response and no
\* Ack.
C5_LocalPostSend ==
    [][ (HttpPostSend(message') /\ message'.payload.target # our) =>
            /\ message_archive' =
                 Extended(message_archive, message'.payload.target,
                          ChatMessage(our, message'.payload.message))
            /\ Len(requests') = 1
            /\ requests'[1].target = message'.payload.target
            /\ requests'[1].ipc = message'.payload
            /\ responses' = <<HttpCreated>>
      ]_vars

\* ---------------------------------------------------------------------- C6
\* What the entry of key k holds when every Send command of log, in order,
\* has added its message under its counterparty.
RECURSIVE ExpectedEntry(_, _)
ExpectedEntry(log, k) ==
    IF log = <<>> THEN <<>>
    ELSE LET last == log[Len(log)]
             rest == ExpectedEntry(SubSeq(log, 1, Len(log) - 1), k)
         IN  IF Counterparty(last.cmd.target, last.source) = k
             THEN Append(rest, ChatMessage(Author(last.cmd.target, last.source),
                                           last.cmd.message))
             ELSE rest

\* The counterparties of the Send commands of log.
Counterparties(log) ==
    {Counterparty(log[i].cmd.target, log[i].source) : i \in 1..Len(log)}

\* C6: after any sequence of events the Archive entry of each counterparty
\* k holds one message per decoded Send command whose counterparty is k, in
\* the order the commands were dequeued: none lost, duplicated or
\* reordered.
C6_ArchiveIsTheSendsInOrder ==
    \A k \in Nodes : Entry(message_archive, k) = ExpectedEntry(sends, k)

\* ---------------------------------------------------------------------- C7
\* m asks for the history: a peer History command, or an HTTP GET.
HistoryRequest(m) ==
    m.kind = "Request" /\ (HistoryCommand(m.ipc) \/ m.ipc = HttpBytes("GET"))

\* C7: a History request (peer History command or HTTP GET) is answered
\* with one snapshot equal to the whole current Archive, whose keys are
\* exactly the counterparties messaged so far, each with its messages in
\* append order; it leaves the Archive and the channel id unchanged, and a
\* History request that directly follows another gets the same snapshot.
C7_HistoryIsTheArchive ==
    [][ HistoryRequest(message') =>
            /\ Len(responses') = 1
            /\ responses'[1].body = "History"
            /\ responses'[1].messages = message_archive
            /\ DOMAIN responses'[1].messages = Counterparties(sends)
            /\ \A k \in Nodes :
                 Entry(responses'[1].messages, k) = ExpectedEntry(sends, k)
            /\ message_archive' = message_archive
            /\ channel_id' = channel_id
            /\ HistoryRequest(message) => responses'[1].messages = responses[1].messages
      ]_vars

\* C7's case: a History request answered with two conversations.
C7_Witness ==
    /\ HistoryRequest(message)
    /\ Len(responses) = 1
    /\ responses[1].messages = message_archive
    /\ Cardinality(DOMAIN responses[1].messages) = 2

\* ---------------------------------------------------------------------- C8
\* m is a request whose ipc decodes neither as a chat command nor as an
\* HTTP/WebSocket server request.
Undecodable(m) ==
    m.kind = "Request" /\ m.ipc.fmt \notin {"ChatRequest", "HttpServerRequest"}

\* C8: a turn on an undecodable event sends no response, no forward and no
\* push, leaves the Archive and the channel id unchanged, raises no error,
\* and leaves the loop ready for the next event.
C8_UndecodableEventIsDropped ==
    [][ Undecodable(message') =>
            /\ responses' = <<>>
            /\ requests' = <<>>
            /\ pushes' = <<>>
            /\ message_archive' = message_archive
            /\ channel_id' = channel_id
            /\ result' = "Ok"
            /\ running'
      ]_vars

\* C8's case: an undecodable event has been handled by a node that holds
\* messages and a channel.
C8_Witness ==
    /\ Undecodable(message)
    /\ message_archive # EmptyArchive
    /\ channel_id # 0

\* ---------------------------------------------------------------------- C9
\* C9: whatever fails while one event is handled (the forward, the push),
\* the failure is caught and logged and the loop goes on to the next event.
C9_NoFailureEndsTheLoop ==
    ((\E i \in 1..Len(requests) : requests[i].outcome # "Ok")
        \/ (\E j \in 1..Len(pushes) : pushes[j].outcome # "Ok"))
    => (running /\ result = "Err")

\* --------------------------------------------------------------------- C10
\* C10: between two events no key of the Archive maps to an empty sequence;
\* a key is present after a turn exactly when it was present before or a
\* message was appended under it in that turn; and a Send that reaches the
\* Archive with no entry for its counterparty leaves that entry holding
\* exactly its message.
C10_NoEmptyEntry ==
    /\ [](\A k \in DOMAIN message_archive : Len(message_archive[k]) > 0)
    /\ [][ /\ \A k \in Nodes :
                k \in DOMAIN message_archive' <=>
                    (k \in DOMAIN message_archive
                        \/ \E i \in 1..Len(appended') : appended'[i].chat = k)
           /\ \A i \in 1..Len(DecodedSends(message')) :
                LET s == DecodedSends(message')[i]
                    k == IF s.cmd.target = our THEN s.source ELSE s.cmd.target
                    a == IF s.cmd.target = our THEN s.source ELSE our
                IN  (k \notin DOMAIN message_archive /\ result' # "Panic") =>
                        (k \in DOMAIN message_archive'
                            /\ message_archive'[k] = <<ChatMessage(a, s.cmd.message)>>)
         ]_vars

\* C10's case: the first Send to a second counterparty has created its
\* entry with its message in it.
C10_Witness ==
    /\ DecodedSends(message) # <<>>
    /\ Cardinality(DOMAIN message_archive) = 2
    /\ \E k \in DOMAIN message_archive :
         /\ Len(message_archive[k]) = 1
         /\ appended = <<NewMessage(k, message_archive[k][1].author,
                                    message_archive[k][1].content)>>

\* --------------------------------------------------------------------- C11
\* C11: the local node's own identifier is never a key of the Archive,
\* whatever the source and the target of the Sends handled.
C11_OwnNodeIsNoKey == our \notin DOMAIN message_archive

\* --------------------------------------------------------------------- C12
\* The protocol responses (Response::send) among the responses rs.
ProtocolResponses(rs) == SelectSeq(rs, LAMBDA r : r.via = "Response")

\* What the same node would have done on an HTTP POST whose body is cmd,
\* the forward (if any) answered with fwd.
AsHttpPost(cmd, fwd) ==
    HandleMessage(HandlerState(message_archive, channel_id),
                  RequestMsg(our, HttpBytes("POST"), cmd), fwd, "Ok")

\* C12: a turn on a WebSocket frame holding a Send or History command
\* leaves the Archive, the forwards, the protocol responses (none for a
\* Send) and the pushes that an HTTP POST with the same body would have
\* left from the same state.
C12_WebSocketFrameLikePost ==
    [][ (message'.kind = "Request" /\ message'.ipc = WebSocketPushBytes
            /\ message'.payload.fmt = "ChatRequest") =>
            LET fwd == IF requests' = <<>> THEN "Ok" ELSE requests'[1].outcome
                post == AsHttpPost(message'.payload, fwd)
            IN  /\ message_archive' = post.archive
                /\ requests' = post.requests
                /\ ProtocolResponses(responses') = ProtocolResponses(post.responses)
                /\ SendCommand(message'.payload) => ProtocolResponses(responses') = <<>>
                /\ pushes' = post.pushes
      ]_vars

\* --------------------------------------------------------------------- C13
\* m is an HTTP request whose method is neither GET nor POST.
HttpOther(m) ==
    /\ m.kind = "Request" /\ m.ipc.fmt = "HttpServerRequest"
    /\ m.ipc.tag = "Http" /\ m.ipc.method \notin {"GET", "POST"}

MethodNotAllowed == ResponseRec("send_response", "METHOD_NOT_ALLOWED", "", EmptyArchive, our)

\* C13: a turn on an HTTP request whose method is neither GET nor POST
\* answers method-not-allowed and nothing else, leaves the Archive and the
\* channel id unchanged, forwards nothing and pushes nothing.
C13_OtherMethodNotAllowed ==
    [][ HttpOther(message') =>
            /\ responses' = <<MethodNotAllowed>>
            /\ message_archive' = message_archive
            /\ channel_id' = channel_id
            /\ requests' = <<>>
            /\ pushes' = <<>>
            /\ appended' = <<>>
      ]_vars

\* C13's case: such a request, carrying a Send in its body, has been
\* answered by a node that holds messages and a channel.
C13_Witness ==
    /\ HttpOther(message) /\ SendCommand(message.payload)
    /\ responses = <<MethodNotAllowed>>
    /\ message_archive # EmptyArchive
    /\ channel_id # 0

\* --------------------------------------------------------------------- C14
\* m is a WebSocketOpen event.
WebSocketOpen(m) ==
    m.kind = "Request" /\ m.ipc.fmt = "HttpServerRequest" /\ m.ipc.tag = "WebSocketOpen"

\* C14: a turn on a WebSocketOpen sets the channel id to the id of that
\* event, whatever was registered; every other turn, a WebSocketClose
\* included, leaves it unchanged; and every push of a turn goes to the
\* registered id.  So the channel id is the id of the latest WebSocketOpen
\* and pushes go to it and to no other.
C14_ChannelIsLatestOpen ==
    [][ /\ WebSocketOpen(message') => channel_id' = message'.ipc.channel_id
        /\ ~WebSocketOpen(message') => channel_id' = channel_id
        /\ \A j \in 1..Len(pushes') : pushes'[j].channel_id = channel_id'
      ]_vars

\* C14's case: the registered channel has been closed and is still
\* registered.
C14_Witness ==
    /\ message.kind = "Request" /\ message.ipc = WebSocketCloseBytes(channel_id)
    /\ channel_id = MaxChannel

\* --------------------------------------------------------------------- C15
\* C15: across any step no key is removed from the Archive and the sequence
\* of every key is a prefix of its sequence after the step.
C15_AppendOnly ==
    [][ \A k \in DOMAIN message_archive :
            /\ k \in DOMAIN message_archive'
            /\ Len(message_archive'[k]) >= Len(message_archive[k])
            /\ SubSeq(message_archive'[k], 1, Len(message_archive[k])) = message_archive[k]
      ]_vars

\* C15's case: a message has been appended to an entry that held one.
C15_Witness ==
    /\ Len(appended) = 1
    /\ Len(Entry(message_archive, appended[1].chat)) >= 2
    /\ Cardinality(DOMAIN message_archive) >= 2

\* --------------------------------------------------------------------- C16
\* C16: a turn on a Send from another node whose target is neither the
\* local node nor the source archives it under key target with the local node as author and
\* forwards its original bytes to target; the source of a peer request is
\* sent an Ack.
C16_ThirdPartyRelay ==
    [][ \A i \in 1..Len(DecodedSends(message')) :
            LET s == DecodedSends(message')[i]
            IN  (s.source # our /\ s.cmd.target # our /\ s.cmd.target # s.source) =>
                    /\ message_archive' =
                         Extended(message_archive, s.cmd.target,
                                  ChatMessage(our, s.cmd.message))
                    /\ Len(requests') = 1
                    /\ requests'[1].target = s.cmd.target
                    /\ requests'[1].ipc = s.cmd
                    /\ PeerSend(message') => responses' = <<AckTo(s.source)>>
      ]_vars

\* --------------------------------------------------------------------- C17
\* C17: a turn whose push fails ends with the failure logged and the
\* process running: the message of that turn is appended to the Archive,
\* the Ack has been sent, and nothing else of the state has changed.
C17_FailedPushIsNotFatal ==
    [][ (\E j \in 1..Len(pushes') : pushes'[j].outcome = "Err") =>
            /\ running'
            /\ result' = "Err"
            /\ Len(appended') = 1
            /\ Len(pushes') = 1
            /\ pushes'[1].event = appended'[1]
            /\ message_archive' =
                 Extended(message_archive, appended'[1].chat,
                          ChatMessage(appended'[1].author, appended'[1].content))
            /\ channel_id' = channel_id
            /\ ProtocolResponses(responses') = <<AckTo(message'.source)>>
      ]_vars

\* C17's case: the push of a peer's second message has failed.
C17_Witness ==
    /\ PeerSend(message) /\ message.source = "bob" /\ message.ipc.target = our
    /\ Len(pushes) = 1 /\ pushes[1].outcome = "Err"
    /\ Len(Entry(message_archive, "bob")) >= 2
    /\ running

\* --------------------------------------------------------------------- C20
\* C20: one turn appends at most one message to the Archive, sends at most
\* one forward and at most one protocol response: no event is handled as a
\* chat command twice.
C20_OneCommandPerEvent ==
    [][ /\ Len(appended') <= 1
        /\ Len(requests') <= 1
        /\ Len(ProtocolResponses(responses')) <= 1
        /\ Len(pushes') <= 1
        /\ \/ message_archive' = message_archive
           \/ \E k \in DOMAIN message_archive' :
                message_archive' =
                    Extended(message_archive, k,
                             message_archive'[k][Len(message_archive'[k])])
      ]_vars

\* C20's case: a peer Send has passed through both handlers and left one
\* message and one forward.
C20_Witness ==
    /\ PeerSend(message)
    /\ Len(appended) = 1
    /\ Len(requests) = 1
    /\ Len(Entry(message_archive, appended[1].chat)) >= 2

\* --------------------------------------------------------------------- C18
\* The messages of seq written by author a, in order.
AuthoredBy(seq, a) == SelectSeq(seq, LAMBDA m : m.author = a)

\* C18: at the step where node A's forward of its local Send to B is
\* acknowledged, A's Archive gains {author: A, content} under key B and
\* nothing else; B's entry under key A ends with that message; and the
\* messages of A under key A on B are those of A under key B on A, so B
\* has appended it once.
C18_AckedSendIsOnBothNodes ==
    [][ \A n \in NetNodes :
            (net.status[n] = "awaiting" /\ net'.status[n] = "idle") =>
                LET b == OtherNode(n)
                    m == [author |-> n, content |-> net.pending[n].payload.message]
                    atB == Entry(net'.archive[b], n)
                IN  /\ net'.archive[n] = Extended(net.archive[n], b, m)
                    /\ atB # <<>>
                    /\ atB[Len(atB)] = m
                    /\ AuthoredBy(atB, n) = AuthoredBy(Entry(net'.archive[n], b), n)
      ]_vars

\* C18's case: two Sends of node "our" to "bob" have been acknowledged.
C18_Witness ==
    /\ net.status["our"] = "idle"
    /\ net.started["our"] = 2
    /\ Len(AuthoredBy(Entry(net.archive["our"], "bob"), "our")) = 2
    /\ Len(AuthoredBy(Entry(net.archive["bob"], "our"), "our")) = 2

\* --------------------------------------------------------------------- C19
\* C19: once the two nodes have been blocked on each other's forward and
\* neither is blocked any more, both messages are in both Archives.
C19_CrossedSendsBothArrive ==
    (net.crossed # {} /\ \A n \in NetNodes : net.status[n] # "awaiting") =>
        \A m \in net.crossed : \A n \in NetNodes :
            \E i \in 1..Len(Entry(net.archive[n], OtherNode(n))) :
                net.archive[n][OtherNode(n)][i] = m

\* --------------------------------------------------------------------- C21
\* C21: the request of a turn gets at most one response, protocol response
\* (Ack, History) and HTTP status response counted together.
C21_AtMostOneResponse ==
    Len(responses) <= 1

====
